---- MODULE Spec2Model ----
(***************************************************************************)
(* PathDiverge career simulator (src/backend/simulator.py).                *)
(*                                                                         *)
(* Numbers.  Python floats are modelled as exact rationals held in         *)
(* integers with a fixed unit:                                             *)
(*   - a base transition row holds hundredths (0.45 is 45);                *)
(*   - a modified row holds units of 1/WUnit: every entry passes three     *)
(*     multiplier stages, each a factor in hundredths;                     *)
(*   - burnout_score holds halves (0.5 is 1);                              *)
(*   - momentum_score holds units of 1/MomScale, which is exact for        *)
(*     MaxYears decays by 0.9;                                             *)
(*   - a retirement probability holds units of 1/PDen;                     *)
(*   - reported probabilities hold units of 1/10000 (round(x, 4)), ages    *)
(*     and durations hundredths (round(x, 2)).                             *)
(* random.random() and random.choices() are nondeterministic choices,      *)
(* except where two careers run at the same time: there they read the      *)
(* stream of the one generator of the random module (rng).                 *)
(***************************************************************************)
EXTENDS Integers, Sequences, FiniteSets, TLC

VARIABLES
    config,                \* run_simulation: the config dict
    pc,                    \* control position
    max_years,             \* simulate_career: argument
    starting_age,          \* simulate_career: argument
    profile,               \* simulate_career: the CareerProfile
    current_state,         \* simulate_career: local
    career_path,           \* simulate_career: local
    year,                  \* simulate_career: number of loop iterations done
    current_age,           \* simulate_career: local
    retirement_prob,       \* simulate_career: local (last value computed)
    base_transitions,      \* simulate_career: local (last row fetched)
    modified_transitions,  \* simulate_career: local (last row returned)
    careers_data,          \* run_batch: local, what run_batch reads of each career
    batch_no,              \* run_simulation: 0 in the primary batch, i in the i-th CI batch
    primary_results,       \* run_simulation: local
    primary_careers,       \* history: careers_data of the primary batch
    bootstrap_probs,       \* run_simulation: local
    result,                \* run_simulation: the returned dict, or the exception raised
    analysis,              \* run_comparative_analysis: arguments, results, position
    threads,               \* concurrent requests: the locals of each one's simulate_career
    rng                    \* the random module's generator: its stream and position

vars == <<config, pc, max_years, starting_age, profile, current_state, career_path,
          year, current_age, retirement_prob, base_transitions, modified_transitions,
          careers_data, batch_no, primary_results, primary_careers, bootstrap_probs,
          result, analysis, threads, rng>>

simVars == <<max_years, starting_age, profile, current_state, career_path, year,
             current_age, retirement_prob, base_transitions, modified_transitions>>

runVars == <<config, careers_data, batch_no, primary_results, primary_careers,
             bootstrap_probs, result>>

outerVars == <<analysis, threads, rng>>

---------------------------------------------------------------------------
\* Bounds of the model.

\* Longest horizon of a career simulated on its own.
MaxYears == 4

\* Largest number of careers in a batch, and the longest horizon of such a batch.
MaxIter == 3

WideYears == 1

\* Longest horizon of the careers of a batch of two.
BatchYears == 3

\* Longest horizon of a batch of one career, and the largest number of extra
\* batches of a run with compute_ci.
DeepYears == 3

MaxCI == 2

---------------------------------------------------------------------------
\* Arithmetic helpers.

Min(a, b) == IF a < b THEN a ELSE b

Max(a, b) == IF a > b THEN a ELSE b

Abs(a) == IF a < 0 THEN -a ELSE a

Range(f) == {f[x] : x \in DOMAIN f}

RECURSIVE SumOver(_, _)
SumOver(f, S) ==
    IF S = {} THEN 0
    ELSE LET x == CHOOSE y \in S : TRUE IN f[x] + SumOver(f, S \ {x})

\* sum(d.values()) and sum of a list (g is f, evaluated once)
Sum(f) == CHOOSE total \in {SumOver(g, DOMAIN g) : g \in {f}} : TRUE

\* round(n / d, k) seen in units of 10^-k, n already scaled by 10^k: the nearest
\* integer to n / d, a tie going to the even neighbour (Python's round), d > 0.
RoundDiv(n, d) ==
    LET q == n \div d
        r == n % d
    IN  IF 2 * r < d THEN q
        ELSE IF 2 * r > d THEN q + 1
        ELSE IF q % 2 = 0 THEN q ELSE q + 1

\* A reported number: None, a key that is absent, a float that is NaN, or a value.
Null == [kind |-> "null", val |-> 0]

Absent == [kind |-> "absent", val |-> 0]

NaN == [kind |-> "nan", val |-> 0]

Some(v) == [kind |-> "value", val |-> v]

\* Unit of a modified transition row: hundredths through three stages of hundredths.
WUnit == 100 * 100 * 100 * 100

\* Unit of momentum_score.
MomScale == 10 ^ MaxYears

\* Unit of a retirement probability.
PDen == 6000 * MomScale

---------------------------------------------------------------------------
\* State space and transition table.

STATES == {"Entry Level", "Junior", "Mid-Level", "Senior", "Lead", "Manager",
           "Director", "VP", "C-Suite", "Retired", "Unemployed"}

\* A variant of TRANSITIONS whose Unemployed row leads back to no employed state.
TRANSITIONS_NoWayBack ==
    [s \in STATES |->
        CASE s = "Retired" -> ("Retired" :> 100)
          [] s = "Unemployed" -> ("Unemployed" :> 98 @@ "Retired" :> 2)
          [] OTHER -> (s :> 80 @@ "Unemployed" :> 20)]

\* TRANSITIONS of src/backend/simulator.py, in hundredths.
TRANSITIONS ==
    [s \in STATES |->
        CASE s = "Entry Level" ->
                ("Entry Level" :> 45 @@ "Junior" :> 30 @@ "Mid-Level" :> 5 @@ "Unemployed" :> 20)
          [] s = "Junior" ->
                ("Junior" :> 40 @@ "Mid-Level" :> 30 @@ "Senior" :> 5 @@ "Entry Level" :> 10
                 @@ "Unemployed" :> 15)
          [] s = "Mid-Level" ->
                ("Mid-Level" :> 50 @@ "Senior" :> 20 @@ "Lead" :> 5 @@ "Junior" :> 10
                 @@ "Unemployed" :> 15)
          [] s = "Senior" ->
                ("Senior" :> 55 @@ "Lead" :> 15 @@ "Manager" :> 10 @@ "Mid-Level" :> 10
                 @@ "Unemployed" :> 10)
          [] s = "Lead" ->
                ("Lead" :> 50 @@ "Manager" :> 20 @@ "Director" :> 5 @@ "Senior" :> 15
                 @@ "Unemployed" :> 10)
          [] s = "Manager" ->
                ("Manager" :> 55 @@ "Director" :> 15 @@ "Lead" :> 15 @@ "Senior" :> 5
                 @@ "Unemployed" :> 10)
          [] s = "Director" ->
                ("Director" :> 60 @@ "VP" :> 10 @@ "Manager" :> 15 @@ "Unemployed" :> 15)
          [] s = "VP" ->
                ("VP" :> 65 @@ "C-Suite" :> 8 @@ "Director" :> 15 @@ "Unemployed" :> 12)
          [] s = "C-Suite" ->
                ("C-Suite" :> 70 @@ "VP" :> 10 @@ "Unemployed" :> 10 @@ "Retired" :> 10)
          [] s = "Retired" ->
                ("Retired" :> 100)
          [] s = "Unemployed" ->
                ("Unemployed" :> 40 @@ "Entry Level" :> 30 @@ "Junior" :> 18
                 @@ "Mid-Level" :> 10 @@ "Retired" :> 2)]

\* TRANSITIONS of src/stupid_simulator.py, in hundredths: the same table but for
\* the Unemployed row.
TRANSITIONS_stupid_simulator ==
    [s \in STATES |->
        IF s = "Unemployed"
        THEN ("Unemployed" :> 50 @@ "Entry Level" :> 25 @@ "Junior" :> 15
              @@ "Mid-Level" :> 8 @@ "Retired" :> 2)
        ELSE TRANSITIONS[s]]

---------------------------------------------------------------------------
\* CareerProfile.

\* CareerProfile.__init__
CareerProfile(early_specialization, risk_tolerance) ==
    [early_specialization |-> early_specialization,
     risk_tolerance       |-> risk_tolerance,
     unemployment_history |-> <<>>,
     burnout_score        |-> 0,
     momentum_score       |-> 0,
     total_demotions      |-> 0,
     total_promotions     |-> 0]

\* stress_levels.get(current_state, 0)
stress_levels(s) ==
    CASE s = "C-Suite" -> 5
      [] s = "VP" -> 4
      [] s = "Director" -> 3
      [] s \in {"Manager", "Lead"} -> 2
      [] s = "Senior" -> 1
      [] s = "Unemployed" -> -2
      [] OTHER -> 0

\* A variant of update_burnout without the floor at 0.
update_burnout_NoFloor(p, s) ==
    [p EXCEPT !.burnout_score = (p.burnout_score + 2 * stress_levels(s)) - 1]

\* CareerProfile.update_burnout; burnout_score in halves
update_burnout(p, s) ==
    [p EXCEPT !.burnout_score = Max(0, (p.burnout_score + 2 * stress_levels(s)) - 1)]

\* state_ranks.get(state, 0)
state_ranks(s) ==
    CASE s = "Entry Level" -> 1
      [] s = "Junior" -> 2
      [] s = "Mid-Level" -> 3
      [] s = "Senior" -> 4
      [] s = "Lead" -> 5
      [] s = "Manager" -> 6
      [] s = "Director" -> 7
      [] s = "VP" -> 8
      [] s = "C-Suite" -> 9
      [] OTHER -> 0

\* A variant of update_momentum that decays the score before the bonus or penalty.
update_momentum_DecayFirst(p, old_state, new_state) ==
    LET old_rank == state_ranks(old_state)
        new_rank == state_ranks(new_state)
        q == [p EXCEPT !.momentum_score = Max(0, (p.momentum_score * 9) \div 10)]
    IN  IF new_rank > old_rank
        THEN [q EXCEPT !.momentum_score = q.momentum_score + 2 * MomScale,
                       !.total_promotions = q.total_promotions + 1]
        ELSE IF new_rank < old_rank
        THEN [q EXCEPT !.momentum_score = Max(0, q.momentum_score - 3 * MomScale),
                       !.total_demotions = q.total_demotions + 1]
        ELSE q

\* CareerProfile.update_momentum; momentum_score in units of 1/MomScale
update_momentum(p, old_state, new_state) ==
    LET old_rank == state_ranks(old_state)
        new_rank == state_ranks(new_state)
        q == IF new_rank > old_rank
             THEN [p EXCEPT !.momentum_score = p.momentum_score + 2 * MomScale,
                            !.total_promotions = p.total_promotions + 1]
             ELSE IF new_rank < old_rank
             THEN [p EXCEPT !.momentum_score = Max(0, p.momentum_score - 3 * MomScale),
                            !.total_demotions = p.total_demotions + 1]
             ELSE p
    IN  [q EXCEPT !.momentum_score = Max(0, (q.momentum_score * 9) \div 10)]

---------------------------------------------------------------------------
\* Retirement policy.

\* The age band's base_prob, in thousandths.
base_prob(age) ==
    IF age < 58 THEN 5
    ELSE IF age < 62 THEN 30
    ELSE IF age < 65 THEN 120
    ELSE IF age < 68 THEN 300
    ELSE 600

\* The state-specific adjustments of base_prob, in thousandths.
state_adjustment(s, age) ==
    (IF age > 60 /\ s \in {"Entry Level", "Junior", "Mid-Level"} THEN 100 ELSE 0)
    - (IF s \in {"C-Suite", "VP", "Director"} THEN 50 ELSE 0)
    + (IF s = "Unemployed" /\ age > 58 THEN 150 ELSE 0)

\* The probability for a state that is not Retired at an age of 55 or more.
banded_probability(p, s, age) ==
    LET burnout_factor  == Min(p.burnout_score * 20 * MomScale, 900 * MomScale)
        momentum_factor == -Min(p.momentum_score * 75, 600 * MomScale)
        base == (base_prob(age) + state_adjustment(s, age)) * 6 * MomScale
    IN  Max(0, Min(PDen, base + burnout_factor + momentum_factor))

\* A variant of get_retirement_probability that tests the age floor before the state.
get_retirement_probability_FloorFirst(p, s, age) ==
    IF age < 55 THEN 0
    ELSE IF s = "Retired" THEN PDen
    ELSE banded_probability(p, s, age)

\* get_retirement_probability, in units of 1/PDen
get_retirement_probability(p, s, age) ==
    IF s = "Retired" THEN PDen
    ELSE IF age < 55 THEN 0
    ELSE banded_probability(p, s, age)

---------------------------------------------------------------------------
\* Transition modifier.

\* d.get(k, 0)
Get(row, k) == IF k \in DOMAIN row THEN row[k] ELSE 0

\* d[k] = v on a copy of d
Put(row, k, v) == [x \in (DOMAIN row) \cup {k} |-> IF x = k THEN v ELSE row[x]]

\* Every entry of `keys` present in the row times m/100, every other entry times 1
\* (r is the row, evaluated once).
Boost(row, keys, m) ==
    CHOOSE boosted \in {[k \in DOMAIN r |-> IF k \in keys THEN r[k] * m ELSE r[k] * 100] :
                           r \in {row}} : TRUE

\* A variant of SpecializationStage whose generalist boost writes Director, VP
\* and C-Suite without testing that the row holds them.
SpecializationStage_NoKeyTest(p, row, s) ==
    IF p.early_specialization
    THEN IF s \in {"Entry Level", "Junior"}
         THEN Boost(row, {"Junior", "Mid-Level", "Senior"}, 130)
         ELSE IF s \in {"Senior", "Lead"}
         THEN Put(Boost(row, {}, 100), s, Get(row, s) * 120)
         ELSE Boost(row, {}, 100)
    ELSE IF s \in {"Manager", "Director", "VP"}
         THEN Put(Put(Put(Boost(row, {}, 100), "Director", Get(row, "Director") * 125),
                      "VP", Get(row, "VP") * 125),
                  "C-Suite", Get(row, "C-Suite") * 125)
         ELSE Boost(row, {}, 100)

\* Early specialization effects (lines 119-131).
SpecializationStage(p, row, s) ==
    IF p.early_specialization
    THEN IF s \in {"Entry Level", "Junior"}
         THEN Boost(row, {"Junior", "Mid-Level", "Senior"}, 130)
         ELSE IF s \in {"Senior", "Lead"}
         THEN Put(Boost(row, {}, 100), s, Get(row, s) * 120)
         ELSE Boost(row, {}, 100)
    ELSE IF s \in {"Manager", "Director", "VP"}
         THEN Boost(row, {"Director", "VP", "C-Suite"}, 125)
         ELSE Boost(row, {}, 100)

\* A variant of RiskStage whose boost at Senior, Lead and Manager includes the
\* current state.
RiskStage_BoostsSelf(p, row, s) ==
    IF p.risk_tolerance = "high"
    THEN IF s = "Unemployed"
         THEN Put(Put(Boost(row, {}, 100), "Mid-Level", Get(row, "Mid-Level") * 150),
                  "Unemployed", Get(row, "Unemployed") * 75)
         ELSE IF s \in {"Senior", "Lead", "Manager"}
         THEN Boost(row, {"Lead", "Manager", "Director"}, 135)
         ELSE IF s \in {"Director", "VP"}
         THEN Boost(row, {"VP", "C-Suite"}, 140)
         ELSE Boost(row, {}, 100)
    ELSE IF p.risk_tolerance = "low" /\ s = "Unemployed"
         THEN Put(Put(Boost(row, {}, 100), "Entry Level", Get(row, "Entry Level") * 130),
                  "Unemployed", Get(row, "Unemployed") * 105)
         ELSE Boost(row, {}, 100)

\* Risk tolerance effects gated by the state (lines 134-156).
RiskStage(p, row, s) ==
    IF p.risk_tolerance = "high"
    THEN IF s = "Unemployed"
         THEN Put(Put(Boost(row, {}, 100), "Mid-Level", Get(row, "Mid-Level") * 150),
                  "Unemployed", Get(row, "Unemployed") * 75)
         ELSE IF s \in {"Senior", "Lead", "Manager"}
         THEN Boost(row, {"Lead", "Manager", "Director"} \ {s}, 135)
         ELSE IF s \in {"Director", "VP"}
         THEN Boost(row, {"VP", "C-Suite"}, 140)
         ELSE Boost(row, {}, 100)
    ELSE IF p.risk_tolerance = "low" /\ s = "Unemployed"
         THEN Put(Put(Boost(row, {}, 100), "Entry Level", Get(row, "Entry Level") * 130),
                  "Unemployed", Get(row, "Unemployed") * 105)
         ELSE Boost(row, {}, 100)

\* Low risk: prefer stability at all levels (lines 158-160).
StabilityStage(p, row, s) ==
    IF p.risk_tolerance = "low" /\ s \in DOMAIN row
    THEN Boost(row, {s}, 115)
    ELSE Boost(row, {}, 100)

\* The row before normalization, in units of 1/WUnit.
Modified(p, transitions, s) ==
    StabilityStage(p, RiskStage(p, SpecializationStage(p, transitions, s), s), s)

\* A variant of apply_decision_modifiers that returns the boosted row as it is.
apply_decision_modifiers_Unnormalized(p, transitions, s) ==
    [row |-> Modified(p, transitions, s), den |-> WUnit]

\* apply_decision_modifiers: the returned row gives state k the probability
\* row[k] / den.  With total > 0 every entry is divided by total; otherwise the
\* boosted row is returned as it is.
apply_decision_modifiers(p, transitions, s) ==
    LET modified == Modified(p, transitions, s)
        total    == Sum(modified)
    IN  IF total > 0
        THEN [row |-> modified, den |-> total]
        ELSE [row |-> modified, den |-> WUnit]

---------------------------------------------------------------------------
\* Values of locals that hold nothing yet.

NoRow == [k \in {} |-> 0]

NoModified == [row |-> NoRow, den |-> 1]

NoConfig ==
    [specialization |-> "none", risk_level |-> "medium", iterations |-> 0,
     max_years |-> 0, starting_age |-> 0, compute_ci |-> FALSE, ci_iterations |-> 0]

NoBatch ==
    [director_prob |-> [num |-> 0, den |-> 1], retire_ages |-> <<>>,
     unemployment_durations |-> <<>>, peak_counts |-> NoRow, total |-> 0]

NoResult == [status |-> "none"]

NoAnalysis == [active |-> FALSE]

NoThreads == <<>>

NoRng == [stream |-> <<>>, pos |-> 0]

\* Neither run_comparative_analysis nor a concurrent request is running.
OuterIdle ==
    /\ analysis = NoAnalysis
    /\ threads = NoThreads
    /\ rng = NoRng

\* run_simulation is not running.
RunIdle ==
    /\ OuterIdle
    /\ config = NoConfig
    /\ careers_data = <<>>
    /\ batch_no = 0
    /\ primary_results = NoBatch
    /\ primary_careers = <<>>
    /\ bootstrap_probs = <<>>
    /\ result = NoResult

---------------------------------------------------------------------------
\* Trajectory simulator: one action per branch of a simulated year.

\* simulate_career, lines 183-188: the state on entering the loop.
EnterCareer(my, sa, p) ==
    /\ max_years' = my
    /\ starting_age' = sa
    /\ profile' = p
    /\ current_state' = "Entry Level"
    /\ career_path' = <<"Entry Level">>
    /\ current_age' = sa
    /\ year' = 0
    /\ UNCHANGED <<retirement_prob, base_transitions, modified_transitions>>

\* The states random.choices can return: those of positive weight.
Choices(modified) ==
    UNION {{k \in DOMAIN m.row : m.row[k] > 0} : m \in {modified}}

\* A variant of YearAbsorbed that continues without appending to career_path.
YearAbsorbed_NoAppend ==
    /\ pc = "year"
    /\ year < max_years
    /\ current_state = "Retired"
    /\ current_age' = current_age + 1
    /\ year' = year + 1
    /\ UNCHANGED <<pc, max_years, starting_age, profile, current_state, career_path,
                   retirement_prob, base_transitions, modified_transitions>>
    /\ UNCHANGED <<runVars, outerVars>>

\* Lines 193-195: the current state is Retired.
YearAbsorbed ==
    /\ pc = "year"
    /\ year < max_years
    /\ current_state = "Retired"
    /\ current_age' = current_age + 1
    /\ career_path' = Append(career_path, current_state)
    /\ year' = year + 1
    /\ UNCHANGED <<pc, max_years, starting_age, profile, current_state, retirement_prob,
                   base_transitions, modified_transitions>>
    /\ UNCHANGED <<runVars, outerVars>>

\* A variant of YearRetire that appends Retired and leaves current_state as it was.
YearRetire_KeepsState ==
    /\ pc = "year"
    /\ year < max_years
    /\ current_state # "Retired"
    /\ LET age  == current_age + 1
           p1   == update_burnout(profile, current_state)
           prob == get_retirement_probability(p1, current_state, age)
       IN  /\ prob > 0
           /\ current_age' = age
           /\ profile' = p1
           /\ retirement_prob' = prob
           /\ career_path' = Append(career_path, "Retired")
           /\ year' = year + 1
    /\ UNCHANGED <<pc, max_years, starting_age, current_state, base_transitions,
                   modified_transitions>>
    /\ UNCHANGED <<runVars, outerVars>>

\* A variant of YearRetire that runs update_momentum on the forced transition.
YearRetire_UpdatesMomentum ==
    /\ pc = "year"
    /\ year < max_years
    /\ current_state # "Retired"
    /\ LET age  == current_age + 1
           p1   == update_burnout(profile, current_state)
           prob == get_retirement_probability(p1, current_state, age)
       IN  /\ prob > 0
           /\ current_age' = age
           /\ profile' = update_momentum(p1, current_state, "Retired")
           /\ retirement_prob' = prob
           /\ current_state' = "Retired"
           /\ career_path' = Append(career_path, "Retired")
           /\ year' = year + 1
    /\ UNCHANGED <<pc, max_years, starting_age, base_transitions, modified_transitions>>
    /\ UNCHANGED <<runVars, outerVars>>

\* Lines 197-204: the retirement trial succeeds (random.random() < retirement_prob,
\* which a draw in [0, 1) can satisfy exactly when retirement_prob > 0).
YearRetire ==
    /\ pc = "year"
    /\ year < max_years
    /\ current_state # "Retired"
    /\ LET age  == current_age + 1
           p1   == update_burnout(profile, current_state)
           prob == get_retirement_probability(p1, current_state, age)
       IN  /\ prob > 0
           /\ current_age' = age
           /\ profile' = p1
           /\ retirement_prob' = prob
           /\ current_state' = "Retired"
           /\ career_path' = Append(career_path, "Retired")
           /\ year' = year + 1
    /\ UNCHANGED <<pc, max_years, starting_age, base_transitions, modified_transitions>>
    /\ UNCHANGED <<runVars, outerVars>>

\* A variant of YearTransition that evaluates the retirement policy at the age
\* before the year's increment.
YearTransition_AgeBeforeIncrement ==
    /\ pc = "year"
    /\ year < max_years
    /\ current_state # "Retired"
    /\ LET age      == current_age
           p1       == update_burnout(profile, current_state)
           prob     == get_retirement_probability(p1, current_state, age)
           base     == TRANSITIONS[current_state]
           modified == apply_decision_modifiers(p1, base, current_state)
       IN  /\ prob < PDen
           /\ \E next_state \in Choices(modified) :
                LET p2 == update_momentum(p1, current_state, next_state)
                IN  /\ profile' =
                          IF next_state = "Unemployed"
                          THEN [p2 EXCEPT !.unemployment_history = Append(@, year)]
                          ELSE p2
                    /\ career_path' = Append(career_path, next_state)
                    /\ current_state' = next_state
           /\ current_age' = age + 1
           /\ retirement_prob' = prob
           /\ base_transitions' = base
           /\ modified_transitions' = modified
           /\ year' = year + 1
    /\ UNCHANGED <<pc, max_years, starting_age>>
    /\ UNCHANGED <<runVars, outerVars>>

\* A variant of YearTransition that records a year in unemployment_history only
\* when the career enters Unemployed from another state.
YearTransition_RecordsEntryOnly ==
    /\ pc = "year"
    /\ year < max_years
    /\ current_state # "Retired"
    /\ LET age      == current_age + 1
           p1       == update_burnout(profile, current_state)
           prob     == get_retirement_probability(p1, current_state, age)
           base     == TRANSITIONS[current_state]
           modified == apply_decision_modifiers(p1, base, current_state)
       IN  /\ prob < PDen
           /\ \E next_state \in Choices(modified) :
                LET p2 == update_momentum(p1, current_state, next_state)
                IN  /\ profile' =
                          IF next_state = "Unemployed" /\ current_state # "Unemployed"
                          THEN [p2 EXCEPT !.unemployment_history = Append(@, year)]
                          ELSE p2
                    /\ career_path' = Append(career_path, next_state)
                    /\ current_state' = next_state
           /\ current_age' = age
           /\ retirement_prob' = prob
           /\ base_transitions' = base
           /\ modified_transitions' = modified
           /\ year' = year + 1
    /\ UNCHANGED <<pc, max_years, starting_age>>
    /\ UNCHANGED <<runVars, outerVars>>

\* Lines 197-222: the retirement trial fails (possible exactly when
\* retirement_prob < 1) and the next state is drawn from the modified row.
YearTransition ==
    /\ pc = "year"
    /\ year < max_years
    /\ current_state # "Retired"
    /\ LET age      == current_age + 1
           p1       == update_burnout(profile, current_state)
           prob     == get_retirement_probability(p1, current_state, age)
           base     == TRANSITIONS[current_state]
           modified == apply_decision_modifiers(p1, base, current_state)
       IN  /\ prob < PDen
           /\ \E next_state \in Choices(modified) :
                LET p2 == update_momentum(p1, current_state, next_state)
                IN  /\ profile' =
                          IF next_state = "Unemployed"
                          THEN [p2 EXCEPT !.unemployment_history = Append(@, year)]
                          ELSE p2
                    /\ career_path' = Append(career_path, next_state)
                    /\ current_state' = next_state
           /\ current_age' = age
           /\ retirement_prob' = prob
           /\ base_transitions' = base
           /\ modified_transitions' = modified
           /\ year' = year + 1
    /\ UNCHANGED <<pc, max_years, starting_age>>
    /\ UNCHANGED <<runVars, outerVars>>

\* Line 224: the loop is exhausted, (career_path, profile) is returned.
ReturnCareer ==
    /\ pc = "year"
    /\ year >= max_years
    /\ pc' = "returned"
    /\ UNCHANGED simVars
    /\ UNCHANGED <<runVars, outerVars>>

\* The inputs of a career simulated on its own.
RiskLevels == {"low", "medium", "high"}

StartAges == {22, 53, 66}

InitCareer ==
    /\ pc = "year"
    /\ max_years \in 0..MaxYears
    /\ starting_age \in StartAges
    /\ \E e \in BOOLEAN, r \in RiskLevels : profile = CareerProfile(e, r)
    /\ current_state = "Entry Level"
    /\ career_path = <<"Entry Level">>
    /\ current_age = starting_age
    /\ year = 0
    /\ retirement_prob = 0
    /\ base_transitions = NoRow
    /\ modified_transitions = NoModified
    /\ RunIdle

NextCareer == YearAbsorbed \/ YearRetire \/ YearTransition \/ ReturnCareer

SpecCareer == InitCareer /\ [][NextCareer]_vars

---------------------------------------------------------------------------
\* The two pure functions applied to enumerated arguments.

\* Rows handed to apply_decision_modifiers: the state's base row, and a row of the
\* same keys whose weights are all zero.
ZeroRow(s) == [k \in DOMAIN TRANSITIONS[s] |-> 0]

ProbeAges == {22, 54, 55, 57, 58, 60, 61, 62, 65, 68}

\* burnout_score 0, 4.5, 22.5 (where burnout/150 reaches 0.15) and 30
ProbeBurnout == {0, 9, 45, 60}

\* momentum_score 0, 1.8, 8 (where momentum/80 reaches 0.10) and 12
ProbeMomentum == {0, (18 * MomScale) \div 10, 8 * MomScale, 12 * MomScale}

InitProbe ==
    /\ pc = "probe"
    /\ current_state \in STATES
    /\ current_age \in ProbeAges
    /\ \E e \in BOOLEAN, r \in RiskLevels, b \in ProbeBurnout, m \in ProbeMomentum :
          profile = [CareerProfile(e, r) EXCEPT !.burnout_score = b, !.momentum_score = m]
    /\ base_transitions \in {TRANSITIONS[current_state], ZeroRow(current_state)}
    /\ max_years = 0
    /\ starting_age = current_age
    /\ career_path = <<current_state>>
    /\ year = 0
    /\ retirement_prob = 0
    /\ modified_transitions = NoModified
    /\ RunIdle

\* A call of get_retirement_probability(profile, current_state, _, current_age).
CallRetirement ==
    /\ pc = "probe"
    /\ retirement_prob' = get_retirement_probability(profile, current_state, current_age)
    /\ pc' = "probe_row"
    /\ UNCHANGED <<max_years, starting_age, profile, current_state, career_path, year,
                   current_age, base_transitions, modified_transitions>>
    /\ UNCHANGED <<runVars, outerVars>>

\* A call of apply_decision_modifiers(profile, base_transitions, current_state, _).
CallModifiers ==
    /\ pc = "probe_row"
    /\ modified_transitions' = apply_decision_modifiers(profile, base_transitions, current_state)
    /\ pc' = "probed"
    /\ UNCHANGED <<max_years, starting_age, profile, current_state, career_path, year,
                   current_age, retirement_prob, base_transitions>>
    /\ UNCHANGED <<runVars, outerVars>>

NextProbe == CallRetirement \/ CallModifiers

SpecProbe == InitProbe /\ [][NextProbe]_vars

---------------------------------------------------------------------------
\* Batch runner.

\* get_peak_position: the loop over career[i..], with max_rank and peak_state so far.
RECURSIVE PeakFrom(_, _, _, _)
PeakFrom(career, i, max_rank, peak_state) ==
    IF i > Len(career) THEN peak_state
    ELSE IF state_ranks(career[i]) > max_rank
         THEN PeakFrom(career, i + 1, state_ranks(career[i]), career[i])
         ELSE PeakFrom(career, i + 1, max_rank, peak_state)

\* A variant of get_peak_position that returns the highest state of the career's
\* last two entries.
get_peak_position_Recent(career) ==
    IF Len(career) >= 2
          /\ state_ranks(career[Len(career) - 1]) > state_ranks(career[Len(career)])
    THEN career[Len(career) - 1]
    ELSE career[Len(career)]

get_peak_position(career) == PeakFrom(career, 1, 0, "Entry Level")

\* career.index("Retired"), counted from 0; 0 when the career holds no Retired.
IndexOfRetired(career) ==
    IF \E i \in 1..Len(career) : career[i] = "Retired"
    THEN (CHOOSE i \in 1..Len(career) :
             /\ career[i] = "Retired"
             /\ \A j \in 1..(i - 1) : career[j] # "Retired") - 1
    ELSE 0

\* The entry of careers_data for one career, reduced to what run_batch reads of
\* it: the peak, "Retired" in career, career.index("Retired") and
\* len(profile.unemployment_history).
CareerRecord(career, p) ==
    [peak         |-> get_peak_position(career),
     retired      |-> \E i \in 1..Len(career) : career[i] = "Retired",
     retire_index |-> IndexOfRetired(career),
     unemployment |-> Len(p.unemployment_history)]

\* A variant of RetireAges that gives a career that never retired the starting age.
RetireAges_AllCareers(cd, sa) ==
    [i \in 1..Len(cd) |-> sa + cd[i].retire_index]

\* The retire_ages list of lines 339-340, in the order of careers_data.
RECURSIVE RetireAges(_, _)
RetireAges(cd, sa) ==
    IF cd = <<>> THEN <<>>
    ELSE IF Head(cd).retired
         THEN <<sa + Head(cd).retire_index>> \o RetireAges(Tail(cd), sa)
         ELSE RetireAges(Tail(cd), sa)

\* peak_counts of lines 346-349.
PeakCounts(cd) ==
    [k \in {cd[i].peak : i \in 1..Len(cd)} |->
        Cardinality({i \in 1..Len(cd) : cd[i].peak = k})]

\* A variant of BatchMetrics that counts the peaks strictly above Director.
BatchMetrics_AboveDirector(cd, sa) ==
    [director_prob |->
        [num |-> Cardinality({i \in 1..Len(cd) : state_ranks(cd[i].peak) > 7}),
         den |-> Len(cd)],
     retire_ages            |-> RetireAges(cd, sa),
     unemployment_durations |-> [i \in 1..Len(cd) |-> cd[i].unemployment],
     peak_counts            |-> PeakCounts(cd),
     total                  |-> Len(cd)]

\* The dict run_batch returns (lines 334-357), for a non-empty careers_data.
BatchMetrics(cd, sa) ==
    [director_prob |->
        [num |-> Cardinality({i \in 1..Len(cd) : state_ranks(cd[i].peak) >= 7}),
         den |-> Len(cd)],
     retire_ages            |-> RetireAges(cd, sa),
     unemployment_durations |-> [i \in 1..Len(cd) |-> cd[i].unemployment],
     peak_counts            |-> PeakCounts(cd),
     total                  |-> Len(cd)]

---------------------------------------------------------------------------
\* numpy reductions of a non-empty list of integers.

\* The k-th smallest element, k in 1..Len(xs).
KthSmallest(xs, k) ==
    CHOOSE v \in Range(xs) :
        /\ Cardinality({i \in DOMAIN xs : xs[i] < v}) < k
        /\ Cardinality({i \in DOMAIN xs : xs[i] <= v}) >= k

\* round(float(np.mean(xs)), 2), in hundredths
Mean2(xs) == RoundDiv(100 * Sum(xs), Len(xs))

\* round(float(np.median(xs)), 2), in hundredths
Median2(xs) ==
    LET n == Len(xs)
    IN  IF n % 2 = 1 THEN 100 * KthSmallest(xs, (n + 1) \div 2)
        ELSE 50 * (KthSmallest(xs, n \div 2) + KthSmallest(xs, (n \div 2) + 1))

\* round(float(np.std(xs)), 2), in hundredths: the population standard deviation
\* sqrt(V) / n with V = n * sum((x - lo)^2) - (sum(x - lo))^2, lo the least element.
Std2(xs) ==
    LET n  == Len(xs)
        lo == KthSmallest(xs, 1)
        d  == [i \in DOMAIN xs |-> xs[i] - lo]
        sq == [i \in DOMAIN xs |-> d[i] * d[i]]
        V  == n * Sum(sq) - Sum(d) * Sum(d)
    IN  CHOOSE s \in 0..(100 * (KthSmallest(xs, n) - lo)) :
            /\ (2 * s + 1) * (2 * s + 1) * n * n > 40000 * V
            /\ s > 0 => (2 * s - 1) * (2 * s - 1) * n * n <= 40000 * V

\* round(float(np.percentile(probs, q)), 4) in units of 1/10000, for q given in
\* thousandths of the range (2.5 is 25) and probs a list of fractions num / den of
\* one den: numpy's linear interpolation between the two nearest order statistics.
Percentile4(probs, q) ==
    LET n   == Len(probs)
        den == probs[1].den
        xs  == [i \in 1..n |-> probs[i].num]
        lo  == (q * (n - 1)) \div 1000
        r   == (q * (n - 1)) % 1000
        a   == KthSmallest(xs, lo + 1)
        b   == KthSmallest(xs, Min(lo + 2, n))
    IN  RoundDiv(10 * (1000 * a + r * (b - a)), den)

---------------------------------------------------------------------------
\* run_simulation.

\* A variant of PeakDistribution that divides by one more than the batch size.
PeakDistribution_OffByOne(peak_counts, total) ==
    [k \in DOMAIN peak_counts |-> RoundDiv(10000 * peak_counts[k], total + 1)]

\* Line 393: {k: round(v / total, 4)}, in units of 1/10000.
PeakDistribution(peak_counts, total) ==
    [k \in DOMAIN peak_counts |-> RoundDiv(10000 * peak_counts[k], total)]

\* Lines 376-380.
RetirementMetric(retire_ages) ==
    [mean |-> IF retire_ages # <<>> THEN Some(Mean2(retire_ages)) ELSE Null,
     std  |-> IF retire_ages # <<>> THEN Some(Std2(retire_ages)) ELSE Null]

\* Lines 383-388.
UnemploymentMetric(unemp_durations) ==
    [mean   |-> IF unemp_durations # <<>> THEN Some(Mean2(unemp_durations)) ELSE Some(0),
     median |-> IF unemp_durations # <<>> THEN Some(Median2(unemp_durations)) ELSE Null,
     std    |-> IF unemp_durations # <<>> THEN Some(Std2(unemp_durations)) ELSE Null]

\* A variant of DirectorMetric whose percentiles include the primary batch's rate.
DirectorMetric_WithPrimary(how) ==
    LET sample == <<primary_results.director_prob>> \o bootstrap_probs
    IN  [mean     |-> Some(RoundDiv(10000 * primary_results.director_prob.num,
                                    primary_results.director_prob.den)),
         ci_lower |-> IF ~config.compute_ci THEN Absent
                      ELSE IF how = "nan" THEN NaN
                      ELSE Some(Percentile4(sample, 25)),
         ci_upper |-> IF ~config.compute_ci THEN Absent
                      ELSE IF how = "nan" THEN NaN
                      ELSE Some(Percentile4(sample, 975))]

\* Lines 363-373; `how` is what np.percentile does with the list it is given.
DirectorMetric(how) ==
    [mean     |-> Some(RoundDiv(10000 * primary_results.director_prob.num,
                                primary_results.director_prob.den)),
     ci_lower |-> IF ~config.compute_ci THEN Absent
                  ELSE IF how = "nan" THEN NaN
                  ELSE Some(Percentile4(bootstrap_probs, 25)),
     ci_upper |-> IF ~config.compute_ci THEN Absent
                  ELSE IF how = "nan" THEN NaN
                  ELSE Some(Percentile4(bootstrap_probs, 975))]

\* What np.percentile can do: on an empty list it returns NaN or raises IndexError,
\* depending on the numpy version.
PercentileOutcomes ==
    IF config.compute_ci /\ bootstrap_probs = <<>> THEN {"nan", "IndexError"}
    ELSE {"value"}

\* Lines 304 and 408: the specialization the profile and the echoed config get.
early_spec == config.specialization = "early"

\* Lines 396-416: the returned dict.
ResultDict(how) ==
    [status |-> "ok",
     metrics |->
        [director_probability |-> DirectorMetric(how),
         retirement_age       |-> RetirementMetric(primary_results.retire_ages),
         unemployment_years   |-> UnemploymentMetric(primary_results.unemployment_durations)],
     distributions |->
        [peak_role |-> PeakDistribution(primary_results.peak_counts, primary_results.total)],
     meta |->
        [total_simulations |-> config.iterations,
         config |->
            [specialization |-> IF early_spec THEN "early" ELSE "none",
             risk_level     |-> config.risk_level,
             iterations     |-> config.iterations,
             max_years      |-> config.max_years,
             starting_age   |-> config.starting_age,
             compute_ci     |-> config.compute_ci]]]

\* An exception that leaves run_simulation.
Raised(name) == [status |-> "error", error |-> name]

\* Lines 303-310 and 360: the config is read and the primary batch begins.
RunPrimary ==
    /\ pc = "parse"
    /\ pc' = "batch_loop"
    /\ careers_data' = <<>>
    /\ batch_no' = 0
    /\ UNCHANGED <<config, primary_results, primary_careers, bootstrap_probs, result>>
    /\ UNCHANGED <<simVars, outerVars>>

\* Lines 322-324: the next career of the batch begins with a fresh profile.
BeginCareer ==
    /\ pc = "batch_loop"
    /\ Len(careers_data) < config.iterations
    /\ EnterCareer(config.max_years, config.starting_age,
                   CareerProfile(early_spec, config.risk_level))
    /\ pc' = "year"
    /\ UNCHANGED <<runVars, outerVars>>

\* Lines 325-332: the career returned is recorded.
EndCareer ==
    /\ pc = "returned"
    /\ careers_data' = Append(careers_data, CareerRecord(career_path, profile))
    /\ pc' = "batch_loop"
    /\ UNCHANGED <<config, batch_no, primary_results, primary_careers, bootstrap_probs,
                   result>>
    /\ UNCHANGED <<simVars, outerVars>>

\* Lines 334-357, 360 and 369-370: the batch is reduced; dividing by
\* len(careers_data) = 0 raises ZeroDivisionError.
BatchReturn ==
    /\ pc = "batch_loop"
    /\ Len(careers_data) >= config.iterations
    /\ IF careers_data = <<>>
       THEN /\ result' = Raised("ZeroDivisionError")
            /\ pc' = "done"
            /\ UNCHANGED <<primary_results, primary_careers, bootstrap_probs>>
       ELSE /\ pc' = "after_batch"
            /\ IF batch_no = 0
               THEN /\ primary_results' = BatchMetrics(careers_data, config.starting_age)
                    /\ primary_careers' = careers_data
                    /\ UNCHANGED bootstrap_probs
               ELSE /\ bootstrap_probs' =
                          Append(bootstrap_probs,
                                 BatchMetrics(careers_data, config.starting_age).director_prob)
                    /\ UNCHANGED <<primary_results, primary_careers>>
            /\ UNCHANGED result
    /\ UNCHANGED <<config, careers_data, batch_no>>
    /\ UNCHANGED <<simVars, outerVars>>

\* Lines 366-369: one more batch for the confidence interval.
CIBatch ==
    /\ pc = "after_batch"
    /\ config.compute_ci
    /\ Len(bootstrap_probs) < config.ci_iterations
    /\ careers_data' = <<>>
    /\ batch_no' = batch_no + 1
    /\ pc' = "batch_loop"
    /\ UNCHANGED <<config, primary_results, primary_careers, bootstrap_probs, result>>
    /\ UNCHANGED <<simVars, outerVars>>

\* Lines 372-416: the metrics are built and returned.
BuildResult ==
    /\ pc = "after_batch"
    /\ config.compute_ci => Len(bootstrap_probs) >= config.ci_iterations
    /\ \E how \in PercentileOutcomes :
          result' = IF how = "IndexError" THEN Raised("IndexError") ELSE ResultDict(how)
    /\ pc' = "done"
    /\ UNCHANGED <<config, careers_data, batch_no, primary_results, primary_careers,
                   bootstrap_probs>>
    /\ UNCHANGED <<simVars, outerVars>>

\* The configs run_simulation is called with: batches of every size over a short
\* horizon, batches of two, and single careers over a long horizon under every
\* value of specialization and risk_level, with and without compute_ci.
SizeConfigs ==
    [specialization : {"none"}, risk_level : {"medium"}, iterations : (-1)..MaxIter,
     max_years : (-1)..WideYears, starting_age : {22, 57}, compute_ci : {FALSE},
     ci_iterations : {MaxCI}]

PairConfigs ==
    [specialization : {"none"}, risk_level : {"medium"}, iterations : {2},
     max_years : {BatchYears}, starting_age : {22, 57}, compute_ci : {FALSE},
     ci_iterations : {MaxCI}]

ProfileConfigs ==
    [specialization : {"early", "none", "late"},
     risk_level : {"low", "medium", "high", "extreme"}, iterations : {1},
     max_years : {DeepYears}, starting_age : {22}, compute_ci : {FALSE},
     ci_iterations : {0, MaxCI}]

CIConfigs ==
    [specialization : {"none"}, risk_level : {"medium"}, iterations : {1},
     max_years : {DeepYears}, starting_age : {22}, compute_ci : {TRUE},
     ci_iterations : (-1)..MaxCI]

Configs == SizeConfigs \cup PairConfigs \cup ProfileConfigs \cup CIConfigs

Init ==
    /\ pc = "parse"
    /\ config \in Configs
    /\ careers_data = <<>>
    /\ batch_no = 0
    /\ primary_results = NoBatch
    /\ primary_careers = <<>>
    /\ bootstrap_probs = <<>>
    /\ result = NoResult
    /\ OuterIdle
    /\ max_years = 0
    /\ starting_age = 0
    /\ profile = CareerProfile(FALSE, "medium")
    /\ current_state = "Entry Level"
    /\ career_path = <<"Entry Level">>
    /\ current_age = 0
    /\ year = 0
    /\ retirement_prob = 0
    /\ base_transitions = NoRow
    /\ modified_transitions = NoModified

Next ==
    \/ RunPrimary
    \/ BeginCareer
    \/ YearAbsorbed
    \/ YearRetire
    \/ YearTransition
    \/ ReturnCareer
    \/ EndCareer
    \/ BatchReturn
    \/ CIBatch
    \/ BuildResult

Spec == Init /\ [][Next]_vars

---------------------------------------------------------------------------
\* run_comparative_analysis.

\* The largest batch size an analysis is called with.
CompareIter == 4

\* Lines 434-438, in the order of the dict.
interventions ==
    <<[name |-> "control", specialization |-> "none", risk_level |-> "medium"],
      [name |-> "specialist", specialization |-> "early", risk_level |-> "medium"],
      [name |-> "risktaker", specialization |-> "none", risk_level |-> "high"]>>

\* The analysis on entry: no call made, no result held.
EnterAnalysis(iterations, compute_ci) ==
    [active |-> TRUE, iterations |-> iterations, compute_ci |-> compute_ci,
     calls |-> <<>>, results |-> NoRow, deltas |-> NoRow]

\* Lines 442-445: the next intervention's config is completed and run_simulation
\* is called with it; the keys the config lacks get the defaults of lines 306-310.
CompareCall ==
    /\ pc = "compare"
    /\ Len(analysis.calls) < Len(interventions)
    /\ LET i == interventions[Len(analysis.calls) + 1]
           c == [specialization |-> i.specialization,
                 risk_level     |-> i.risk_level,
                 iterations     |-> analysis.iterations,
                 max_years      |-> 45,
                 starting_age   |-> 22,
                 compute_ci     |-> analysis.compute_ci,
                 ci_iterations  |-> 30]
       IN  /\ config' = c
           /\ analysis' = [analysis EXCEPT !.calls = Append(@, c)]
    /\ careers_data' = <<>>
    /\ batch_no' = 0
    /\ primary_results' = NoBatch
    /\ primary_careers' = <<>>
    /\ bootstrap_probs' = <<>>
    /\ result' = NoResult
    /\ pc' = "parse"
    /\ UNCHANGED <<simVars, threads, rng>>

\* What a call of run_simulation can return to the analysis (lines 334-336 and
\* 363): an empty batch raises ZeroDivisionError; otherwise some number of the
\* careers of the primary batch peaked at Director or above, and
\* director_probability.mean is that number over the batch size, rounded to 4
\* places.  Over the default horizon of 45 years every number of careers can.
RunOutcomes(c) ==
    IF c.iterations <= 0
    THEN {Raised("ZeroDivisionError")}
    ELSE {[status  |-> "ok",
           metrics |-> [director_probability |->
                           [mean |-> Some(RoundDiv(10000 * k, c.iterations))]]] :
             k \in 0..c.iterations}

\* Line 445: the call of run_simulation(config) runs and ends.
SimulationEnds ==
    /\ pc = "parse"
    /\ analysis.active
    /\ result' \in RunOutcomes(config)
    /\ pc' = "done"
    /\ UNCHANGED <<config, careers_data, batch_no, primary_results, primary_careers,
                   bootstrap_probs>>
    /\ UNCHANGED <<simVars, outerVars>>

\* Line 445: results[name] = the dict run_simulation returned, of which the
\* analysis reads metrics.director_probability.
CompareReturn ==
    /\ pc = "done"
    /\ analysis.active
    /\ result.status = "ok"
    /\ analysis' = [analysis EXCEPT
                      !.results = Put(@, interventions[Len(analysis.calls)].name,
                                      result.metrics.director_probability)]
    /\ pc' = "compare"
    /\ UNCHANGED <<simVars, runVars, threads, rng>>

\* Line 445: an exception of run_simulation leaves the analysis.
CompareRaise ==
    /\ pc = "done"
    /\ analysis.active
    /\ result.status = "error"
    /\ pc' = "compare_raised"
    /\ UNCHANGED <<simVars, runVars, outerVars>>

\* A variant of CompareDeltas whose second delta reads the specialist's mean.
CompareDeltas_SameMean ==
    /\ pc = "compare"
    /\ Len(analysis.calls) = Len(interventions)
    /\ LET control_prob == analysis.results["control"].mean.val
           d == RoundDiv(10000 * (analysis.results["specialist"].mean.val - control_prob),
                         10000)
       IN  analysis' = [analysis EXCEPT
                          !.deltas = [specialist_vs_control |-> d,
                                      risktaker_vs_control  |-> d]]
    /\ pc' = "compare_done"
    /\ UNCHANGED <<simVars, runVars, threads, rng>>

\* Lines 448-459: the deltas against control, round(a - b, 4) in units of 1/10000.
CompareDeltas ==
    /\ pc = "compare"
    /\ Len(analysis.calls) = Len(interventions)
    /\ LET control_prob == analysis.results["control"].mean.val
       IN  analysis' = [analysis EXCEPT
              !.deltas =
                 [specialist_vs_control |->
                     RoundDiv(10000 * (analysis.results["specialist"].mean.val
                                       - control_prob), 10000),
                  risktaker_vs_control |->
                     RoundDiv(10000 * (analysis.results["risktaker"].mean.val
                                       - control_prob), 10000)]]
    /\ pc' = "compare_done"
    /\ UNCHANGED <<simVars, runVars, threads, rng>>

InitCompare ==
    /\ pc = "compare"
    /\ \E n \in 0..CompareIter, ci \in BOOLEAN : analysis = EnterAnalysis(n, ci)
    /\ threads = NoThreads
    /\ rng = NoRng
    /\ config = NoConfig
    /\ careers_data = <<>>
    /\ batch_no = 0
    /\ primary_results = NoBatch
    /\ primary_careers = <<>>
    /\ bootstrap_probs = <<>>
    /\ result = NoResult
    /\ max_years = 0
    /\ starting_age = 0
    /\ profile = CareerProfile(FALSE, "medium")
    /\ current_state = "Entry Level"
    /\ career_path = <<"Entry Level">>
    /\ current_age = 0
    /\ year = 0
    /\ retirement_prob = 0
    /\ base_transitions = NoRow
    /\ modified_transitions = NoModified

NextCompare ==
    \/ CompareCall
    \/ SimulationEnds
    \/ CompareReturn
    \/ CompareRaise
    \/ CompareDeltas

SpecCompare == InitCompare /\ [][NextCompare]_vars

---------------------------------------------------------------------------
\* Two calls of simulate_career running at the same time (two requests served by
\* two threads).  random.random() and random.choices() read and advance the one
\* generator of the random module: rng.stream is the sequence of values its
\* random() returns from the state it is in, in tenths, and rng.pos the number of
\* them already returned.  A thread's steps between two draws touch only its own
\* locals, so a step is the code from one draw to the next.

\* Horizon of the concurrent careers.
SharedYears == 2

\* A value of random() is u / DrawUnit.
DrawUnit == 10

\* The values random() returns in the streams explored: 0.0, 0.5 and 0.9.
Draws == {0, 5, 9}

\* list(modified_transitions.keys()): the keys of the row in the order of the dict.
next_states(s) ==
    CASE s = "Entry Level" -> <<"Entry Level", "Junior", "Mid-Level", "Unemployed">>
      [] s = "Junior" -> <<"Junior", "Mid-Level", "Senior", "Entry Level", "Unemployed">>
      [] s = "Mid-Level" -> <<"Mid-Level", "Senior", "Lead", "Junior", "Unemployed">>
      [] s = "Senior" -> <<"Senior", "Lead", "Manager", "Mid-Level", "Unemployed">>
      [] s = "Lead" -> <<"Lead", "Manager", "Director", "Senior", "Unemployed">>
      [] s = "Manager" -> <<"Manager", "Director", "Lead", "Senior", "Unemployed">>
      [] s = "Director" -> <<"Director", "VP", "Manager", "Unemployed">>
      [] s = "VP" -> <<"VP", "C-Suite", "Director", "Unemployed">>
      [] s = "C-Suite" -> <<"C-Suite", "VP", "Unemployed", "Retired">>
      [] s = "Retired" -> <<"Retired">>
      [] s = "Unemployed" -> <<"Unemployed", "Entry Level", "Junior", "Mid-Level", "Retired">>

\* The sum of the weights of the first j keys.
RECURSIVE CumWeight(_, _, _)
CumWeight(modified, keys, j) ==
    IF j = 0 THEN 0 ELSE modified.row[keys[j]] + CumWeight(modified, keys, j - 1)

\* random.choices(next_states, weights=probabilities, k=1)[0] when random()
\* returns u / DrawUnit: bisect over the cumulative weights of all keys but the
\* last, so the first key whose cumulative weight exceeds random() * total, or
\* the last key.
DrawnChoice(modified, keys, u) ==
    LET n     == Len(keys)
        total == CumWeight(modified, keys, n)
        above == {j \in 1..(n - 1) : CumWeight(modified, keys, j) * DrawUnit > u * total}
    IN  IF above = {} THEN keys[n]
        ELSE keys[CHOOSE j \in above : \A i \in above : j <= i]

\* The locals of a call of simulate_career on entering the loop (lines 183-188).
EnterThread(my, sa, p) ==
    [pc |-> "trial", max_years |-> my, starting_age |-> sa, profile |-> p,
     current_state |-> "Entry Level", career_path |-> <<"Entry Level">>,
     current_age |-> sa, year |-> 0]

\* Lines 191-195: a year in Retired.
AbsorbedStep(c) ==
    [c EXCEPT !.current_age = @ + 1,
              !.career_path = Append(@, c.current_state),
              !.year = @ + 1]

\* Lines 191 and 197-204: the retirement trial of a year not in Retired, with
\* random() = u / DrawUnit.
TrialStep(c, u) ==
    LET age  == c.current_age + 1
        p1   == update_burnout(c.profile, c.current_state)
        prob == get_retirement_probability(p1, c.current_state, age)
    IN  IF u * (PDen \div DrawUnit) < prob
        THEN [c EXCEPT !.current_age = age,
                       !.profile = p1,
                       !.current_state = "Retired",
                       !.career_path = Append(@, "Retired"),
                       !.year = @ + 1]
        ELSE [c EXCEPT !.current_age = age, !.profile = p1, !.pc = "choose"]

\* Lines 206-222: the transition of a year whose trial failed, with
\* random() = u / DrawUnit inside random.choices.
ChooseStep(c, u) ==
    LET modified   == apply_decision_modifiers(c.profile, TRANSITIONS[c.current_state],
                                               c.current_state)
        next_state == DrawnChoice(modified, next_states(c.current_state), u)
        p2         == update_momentum(c.profile, c.current_state, next_state)
    IN  [c EXCEPT !.profile = IF next_state = "Unemployed"
                              THEN [p2 EXCEPT !.unemployment_history = Append(@, c.year)]
                              ELSE p2,
                  !.career_path = Append(@, next_state),
                  !.current_state = next_state,
                  !.year = @ + 1,
                  !.pc = "trial"]

\* The steps of thread t; random() returns the next value of the stream and the
\* generator advances.
ThreadAbsorbed(t) ==
    /\ pc = "shared"
    /\ threads[t].pc = "trial"
    /\ threads[t].year < threads[t].max_years
    /\ threads[t].current_state = "Retired"
    /\ threads' = [threads EXCEPT ![t] = AbsorbedStep(@)]
    /\ UNCHANGED <<pc, simVars, runVars, analysis, rng>>

ThreadTrial(t) ==
    /\ pc = "shared"
    /\ threads[t].pc = "trial"
    /\ threads[t].year < threads[t].max_years
    /\ threads[t].current_state # "Retired"
    /\ threads' = [threads EXCEPT ![t] = TrialStep(@, rng.stream[rng.pos + 1])]
    /\ rng' = [rng EXCEPT !.pos = @ + 1]
    /\ UNCHANGED <<pc, simVars, runVars, analysis>>

ThreadChoose(t) ==
    /\ pc = "shared"
    /\ threads[t].pc = "choose"
    /\ threads' = [threads EXCEPT ![t] = ChooseStep(@, rng.stream[rng.pos + 1])]
    /\ rng' = [rng EXCEPT !.pos = @ + 1]
    /\ UNCHANGED <<pc, simVars, runVars, analysis>>

\* Line 224: the loop is exhausted.
ThreadReturn(t) ==
    /\ pc = "shared"
    /\ threads[t].pc = "trial"
    /\ threads[t].year >= threads[t].max_years
    /\ threads' = [threads EXCEPT ![t].pc = "returned"]
    /\ UNCHANGED <<pc, simVars, runVars, analysis, rng>>

\* The two requests: one career each, a generalist of medium risk starting at 22
\* and a specialist of high risk starting at 66.
InitShared ==
    /\ pc = "shared"
    /\ threads = <<EnterThread(SharedYears, 22, CareerProfile(FALSE, "medium")),
                   EnterThread(SharedYears, 66, CareerProfile(TRUE, "high"))>>
    /\ \E stream \in [1..(4 * SharedYears) -> Draws] : rng = [stream |-> stream, pos |-> 0]
    /\ analysis = NoAnalysis
    /\ config = NoConfig
    /\ careers_data = <<>>
    /\ batch_no = 0
    /\ primary_results = NoBatch
    /\ primary_careers = <<>>
    /\ bootstrap_probs = <<>>
    /\ result = NoResult
    /\ max_years = 0
    /\ starting_age = 0
    /\ profile = CareerProfile(FALSE, "medium")
    /\ current_state = "Entry Level"
    /\ career_path = <<"Entry Level">>
    /\ current_age = 0
    /\ year = 0
    /\ retirement_prob = 0
    /\ base_transitions = NoRow
    /\ modified_transitions = NoModified

NextShared ==
    \/ \E t \in DOMAIN threads : ThreadAbsorbed(t)
    \/ \E t \in DOMAIN threads : ThreadTrial(t)
    \/ \E t \in DOMAIN threads : ThreadChoose(t)
    \/ \E t \in DOMAIN threads : ThreadReturn(t)

SpecShared == InitShared /\ [][NextShared]_vars

---------------------------------------------------------------------------
\* Claims about one career (SpecCareer).

\* C1: once an entry of the trajectory equals Retired, every later entry is Retired.
C1_RetiredAbsorbing ==
    \A i, j \in 1..Len(career_path) :
        (i < j /\ career_path[i] = "Retired") => career_path[j] = "Retired"

\* C1 witness: a returned trajectory that retired before its last year.
C1_Witness ==
    /\ pc = "returned"
    /\ \E i \in 1..Len(career_path) : i < Len(career_path) /\ career_path[i] = "Retired"

\* C5: one entry is appended per simulated year on every branch, the loop runs
\* until max_years years are done and then returns, so the returned trajectory has
\* max_years + 1 entries starting with Entry Level; with max_years = 0 it is
\* [Entry Level] and the profile is as it was constructed.
C5_LengthIsYearsPlusOne ==
    /\ Len(career_path) = year + 1
    /\ year <= max_years
    /\ career_path[1] = "Entry Level"
    /\ (pc = "year" /\ year < max_years) =>
          (ENABLED YearAbsorbed \/ ENABLED YearRetire \/ ENABLED YearTransition)
    /\ (pc = "year" /\ year = max_years) => ENABLED ReturnCareer
    /\ pc = "returned" =>
          /\ year = max_years
          /\ Len(career_path) = max_years + 1
          /\ max_years = 0 =>
                /\ career_path = <<"Entry Level">>
                /\ profile = CareerProfile(profile.early_specialization,
                                           profile.risk_tolerance)

\* C5 witness: a returned trajectory of the longest horizon in which a normal
\* transition, a retirement and an absorbed year all happened.
C5_Witness ==
    /\ pc = "returned"
    /\ max_years = MaxYears
    /\ Len(career_path) = MaxYears + 1
    /\ career_path[2] # "Retired"
    /\ career_path[Len(career_path) - 1] = "Retired"

---------------------------------------------------------------------------
\* Claims about the two pure functions (SpecProbe).

\* C3: for every profile and state, the row returned for the state's base row has
\* no negative entry and its probabilities row[k] / den sum to 1.
C3_ModifiedRowIsDistribution ==
    (pc = "probed" /\ base_transitions = TRANSITIONS[current_state]) =>
        /\ modified_transitions.den > 0
        /\ \A k \in DOMAIN modified_transitions.row : modified_transitions.row[k] >= 0
        /\ Sum(modified_transitions.row) = modified_transitions.den

\* C3 witness: a specialist of low risk at Junior, whose Junior entry was boosted by
\* 1.3 and by 1.15 before the row was normalized.
C3_Witness ==
    /\ pc = "probed"
    /\ base_transitions = TRANSITIONS[current_state]
    /\ current_state = "Junior"
    /\ profile.early_specialization
    /\ profile.risk_tolerance = "low"
    /\ modified_transitions.row["Junior"] = 40 * 130 * 100 * 115
    /\ modified_transitions.den # WUnit

\* C4: the retirement probability lies in [0, 1]; it is 1 for Retired at any age,
\* and 0 for any other state below the age of 55, whatever the scores.
C4_RetirementProbability ==
    pc \in {"probe_row", "probed"} =>
        /\ 0 <= retirement_prob
        /\ retirement_prob <= PDen
        /\ current_state = "Retired" => retirement_prob = PDen
        /\ (current_state # "Retired" /\ current_age < 55) => retirement_prob = 0

\* C4 witness: Retired below the age floor, with probability 1.
C4_Witness ==
    /\ pc = "probed"
    /\ current_state = "Retired"
    /\ current_age < 55
    /\ profile.burnout_score > 0
    /\ retirement_prob = PDen

\* C9: apply_decision_modifiers never returns a row whose modified total is <= 0
\* (it raises instead), so every row it returns is normalized.
C9_ZeroTotalNeverReturned ==
    pc = "probed" =>
        /\ Sum(Modified(profile, base_transitions, current_state)) > 0
        /\ Sum(modified_transitions.row) = modified_transitions.den

---------------------------------------------------------------------------
\* Claims about run_simulation (Spec).

\* C2: every retirement age a batch reports is at least 55 and at most
\* starting_age + max_years.
C2_RetirementAgeBounds ==
    \A i \in DOMAIN primary_results.retire_ages :
        /\ primary_results.retire_ages[i] >= 55
        /\ primary_results.retire_ages[i] <= config.starting_age + config.max_years

\* The number of careers of the primary batch whose peak is k.
PrimaryPeakCount(k) ==
    Cardinality({i \in DOMAIN primary_careers : primary_careers[i].peak = k})

\* C6 as claimed: every value of distributions.peak_role is in [0, 1] and the
\* values sum to 1.0 (any deviation of a sum of multiples of 0.0001 from 1.0 is at
\* least 0.0001, far above 1e-9).
C6_PeakRoleSumsToOne ==
    result.status = "ok" =>
        LET peak_role == result.distributions.peak_role
        IN  /\ \A k \in DOMAIN peak_role : 0 <= peak_role[k] /\ peak_role[k] <= 10000
            /\ Sum(peak_role) = 10000

\* C6 as amended: peak_role has one value per peak role of the primary batch, each
\* in [0, 1] and within 0.00005 of that role's count divided by the batch size, so
\* the values sum to 1.0 within 0.00005 times the number of roles.
C6_PeakRoleSumsToOneRounded ==
    result.status = "ok" =>
        LET peak_role == result.distributions.peak_role
            total     == Len(primary_careers)
        IN  /\ DOMAIN peak_role = {primary_careers[i].peak : i \in DOMAIN primary_careers}
            /\ \A k \in DOMAIN peak_role :
                  /\ 0 <= peak_role[k]
                  /\ peak_role[k] <= 10000
                  /\ 2 * Abs(peak_role[k] * total - 10000 * PrimaryPeakCount(k)) <= total
            /\ 2 * Abs(Sum(peak_role) - 10000) <= Cardinality(DOMAIN peak_role)

\* C6 witness: three careers of three different peaks, reported as 0.3333 each.
C6_Witness ==
    /\ result.status = "ok"
    /\ Cardinality(DOMAIN result.distributions.peak_role) = 3
    /\ Sum(result.distributions.peak_role) = 9999

\* The config is refused: no career is simulated, and the call ends with a
\* configuration error.
ConfigRefused ==
    /\ pc \notin {"year", "returned"}
    /\ careers_data = <<>>
    /\ pc = "done" => result = Raised("ConfigurationError")

\* C7: a non-positive iterations, ci_iterations or max_years is refused with a
\* configuration error before any career is simulated.
C7_NonPositiveSizesRefused ==
    (config.iterations <= 0 \/ config.ci_iterations <= 0 \/ config.max_years <= 0)
        => ConfigRefused

\* C8: a risk_level outside {low, medium, high} or a specialization outside
\* {early, none} is refused with a configuration error before any career is
\* simulated.
C8_UnknownChoicesRefused ==
    (config.risk_level \notin {"low", "medium", "high"}
        \/ config.specialization \notin {"early", "none"})
        => ConfigRefused

\* The careers of the primary batch that hold a Retired entry, and their ages then.
PrimaryRetired == {i \in DOMAIN primary_careers : primary_careers[i].retired}

PrimaryRetireAge == [i \in DOMAIN primary_careers |->
                        config.starting_age + primary_careers[i].retire_index]

\* C10: retirement_age.mean and .std are both None exactly when no career of the
\* primary batch retired; otherwise both are numbers, the mean and the population
\* standard deviation, rounded to hundredths, of the retirement ages of exactly the
\* careers that retired.
C10_RetirementAgeNullIffNoneRetired ==
    result.status = "ok" =>
        LET m  == result.metrics.retirement_age
            n  == Cardinality(PrimaryRetired)
            sm == SumOver(PrimaryRetireAge, PrimaryRetired)
            sq == SumOver([i \in DOMAIN primary_careers |->
                              PrimaryRetireAge[i] * PrimaryRetireAge[i]], PrimaryRetired)
            V  == n * sq - sm * sm
        IN  /\ (m.mean = Null) <=> (PrimaryRetired = {})
            /\ (m.std = Null) <=> (PrimaryRetired = {})
            /\ PrimaryRetired # {} =>
                  /\ m.mean.kind = "value"
                  /\ m.std.kind = "value"
                  /\ 2 * Abs(n * m.mean.val - 100 * sm) <= n
                  /\ (2 * m.std.val + 1) * (2 * m.std.val + 1) * n * n > 40000 * V
                  /\ m.std.val > 0 =>
                        (2 * m.std.val - 1) * (2 * m.std.val - 1) * n * n <= 40000 * V

\* C10 witness: a result whose primary batch holds a career that retired and one
\* that did not.
C10_Witness ==
    /\ result.status = "ok"
    /\ PrimaryRetired # {}
    /\ PrimaryRetired # DOMAIN primary_careers
    /\ result.metrics.retirement_age.mean.kind = "value"

---------------------------------------------------------------------------
\* Claims about run_comparative_analysis (SpecCompare).

\* C11: an analysis that returns has called run_simulation exactly three times,
\* with (none, medium) for control, (early, medium) for specialist and (none, high)
\* for risktaker and its own iterations and compute_ci; it holds for each name the
\* director_probability the call returned, and each delta is the named run's mean
\* minus control's mean, rounded to 4 places.
C11_ComparativeDeltas ==
    /\ Len(analysis.calls) <= 3
    /\ \A i \in 1..Len(analysis.calls) :
          /\ analysis.calls[i].specialization = <<"none", "early", "none">>[i]
          /\ analysis.calls[i].risk_level = <<"medium", "medium", "high">>[i]
          /\ analysis.calls[i].iterations = analysis.iterations
          /\ analysis.calls[i].compute_ci = analysis.compute_ci
    /\ (pc = "compare" /\ Len(analysis.calls) >= 1) =>
          analysis.results[<<"control", "specialist", "risktaker">>[Len(analysis.calls)]]
             = result.metrics.director_probability
    /\ pc = "compare_done" =>
          /\ Len(analysis.calls) = 3
          /\ DOMAIN analysis.results = {"control", "specialist", "risktaker"}
          /\ analysis.deltas.specialist_vs_control =
                analysis.results["specialist"].mean.val - analysis.results["control"].mean.val
          /\ analysis.deltas.risktaker_vs_control =
                analysis.results["risktaker"].mean.val - analysis.results["control"].mean.val

\* C11 witness: an analysis of batches of three returned with control at 0.3333,
\* specialist at 0.6667 and risktaker at 0.
C11_Witness ==
    /\ pc = "compare_done"
    /\ analysis.iterations = 3
    /\ analysis.deltas.specialist_vs_control = 3334
    /\ analysis.deltas.risktaker_vs_control = -3333

---------------------------------------------------------------------------
\* Claims about concurrent careers (SpecShared).

\* The trajectory simulate_career returns from locals c when it runs alone on a
\* generator whose stream is `stream`, pos values of it already returned.
RECURSIVE SoloPath(_, _, _)
SoloPath(c, stream, pos) ==
    IF c.pc = "choose" THEN SoloPath(ChooseStep(c, stream[pos + 1]), stream, pos + 1)
    ELSE IF c.year >= c.max_years THEN c.career_path
    ELSE IF c.current_state = "Retired" THEN SoloPath(AbsorbedStep(c), stream, pos)
    ELSE SoloPath(TrialStep(c, stream[pos + 1]), stream, pos + 1)

\* C12: no mutable state is shared across trajectories: the trajectory a call
\* returns does not depend on how its steps interleave with the other call's, so
\* it is the one the call produces when all its steps come first.
C12_TrajectoryIndependentOfInterleaving ==
    \A t \in DOMAIN threads :
        threads[t].pc = "returned" =>
            threads[t].career_path =
                SoloPath(EnterThread(threads[t].max_years, threads[t].starting_age,
                                     CareerProfile(threads[t].profile.early_specialization,
                                                   threads[t].profile.risk_tolerance)),
                         rng.stream, 0)

---------------------------------------------------------------------------
\* More claims about one career (SpecCareer).

\* C13: in every state of a career started from a fresh profile, after any
\* sequence of burnout and momentum updates, burnout_score >= 0 and
\* momentum_score >= 0.
C13_ScoresNonNegative ==
    /\ profile.burnout_score >= 0
    /\ profile.momentum_score >= 0

\* C13 witness: the last year was spent Unemployed (stress -2) after a demotion
\* (penalty -3), and both scores were floored at 0.
C13_Witness ==
    /\ Len(career_path) >= 3
    /\ career_path[Len(career_path) - 1] = "Unemployed"
    /\ current_state # "Retired"
    /\ profile.total_demotions >= 1
    /\ profile.total_promotions = 0
    /\ profile.burnout_score = 0
    /\ profile.momentum_score = 0

---------------------------------------------------------------------------
\* More claims about run_simulation (Spec).

\* C14: director_probability.mean is in [0, 1] and is, rounded to 4 places, the
\* number of careers of the primary batch whose peak has rank >= 7 (Director)
\* divided by the number of careers of the batch, which is `iterations`.
C14_DirectorMeanIsPeakFraction ==
    result.status = "ok" =>
        LET m == result.metrics.director_probability.mean
            n == Len(primary_careers)
            k == Cardinality({i \in DOMAIN primary_careers :
                                 primary_careers[i].peak \in {"Director", "VP", "C-Suite"}})
        IN  /\ n = config.iterations
            /\ m.kind = "value"
            /\ 0 <= m.val
            /\ m.val <= 10000
            /\ 2 * Abs(m.val * n - 10000 * k) <= n

\* C14 witness: a batch of two of which one career peaked at Director, reported
\* as 0.5.
C14_Witness ==
    /\ result.status = "ok"
    /\ Len(primary_careers) = 2
    /\ \E i \in DOMAIN primary_careers : primary_careers[i].peak = "Director"
    /\ result.metrics.director_probability.mean = Some(5000)

---------------------------------------------------------------------------
\* Claims about the steps of one career (SpecCareer).

\* The retirement probability of a year whose policy is given the age `age`.
PolicyAt(age) ==
    get_retirement_probability(update_burnout(profile, current_state), current_state, age)

\* C15 as claimed: in every simulated year the age passed to the retirement
\* policy is starting_age + year, year being the index of the year (the index
\* appended to unemployment_history when the year ends Unemployed).
C15_PolicyAgeIsStartPlusIndex ==
    [][(YearRetire \/ YearTransition) =>
          /\ retirement_prob' = PolicyAt(starting_age + year)
          /\ current_state' = "Unemployed" =>
                profile'.unemployment_history = Append(profile.unemployment_history, year)
      ]_vars

\* C15 as amended: in every simulated year the age passed to the retirement
\* policy is starting_age + year + 1, year being the index of the year (the index
\* appended to unemployment_history when the year ends Unemployed): the age is
\* incremented before the policy is evaluated.
C15_PolicyAgeIsStartPlusIndexPlusOne ==
    [][(YearRetire \/ YearTransition) =>
          /\ current_age' = starting_age + year + 1
          /\ retirement_prob' = PolicyAt(starting_age + year + 1)
          /\ current_state' = "Unemployed" =>
                profile'.unemployment_history = Append(profile.unemployment_history, year)
      ]_vars

\* C15 witness: a career started at 53 whose year of index 1 ended Unemployed,
\* with the policy evaluated at 55, where it is positive.
C15_Witness ==
    /\ starting_age = 53
    /\ year = 2
    /\ current_state = "Unemployed"
    /\ profile.unemployment_history # <<>>
    /\ profile.unemployment_history[Len(profile.unemployment_history)] = 1
    /\ current_age = 55
    /\ retirement_prob > 0

\* The states reached from those of S by transitions of positive probability.
RECURSIVE ReachableFrom(_, _)
ReachableFrom(table, S) ==
    LET more == S \cup {k \in STATES :
                           \E s \in S : k \in DOMAIN table[s] /\ table[s][k] > 0}
    IN  IF more = S THEN S ELSE ReachableFrom(table, more)

\* A table keeps the required structure.
TableStructure(table) ==
    /\ DOMAIN table = STATES
    /\ \A s \in STATES :
          /\ DOMAIN table[s] \subseteq STATES
          /\ \A k \in DOMAIN table[s] : table[s][k] >= 0
          /\ SumOver(table[s], DOMAIN table[s]) = 100
    /\ DOMAIN table["Retired"] = {"Retired"}
    /\ STATES \ {"Retired", "Unemployed"} \subseteq ReachableFrom(table, {"Unemployed"})

\* C16: in the TRANSITIONS table (of both simulators) every row sums to 1, the
\* Retired row holds only Retired, every successor is one of the 11 states, and
\* every state from Entry Level to C-Suite is reachable from Unemployed by
\* transitions of positive probability; the row a career fetches is a row of it.
C16_TableStructure ==
    /\ TableStructure(TRANSITIONS)
    /\ TableStructure(TRANSITIONS_stupid_simulator)
    /\ Cardinality(STATES) = 11
    /\ base_transitions # NoRow =>
          \E s \in STATES : s # "Retired" /\ base_transitions = TRANSITIONS[s]

\* C16 witness: a career that fetched the Unemployed row and left Unemployed for
\* an employed state.
C16_Witness ==
    /\ base_transitions = TRANSITIONS["Unemployed"]
    /\ Len(career_path) >= 3
    /\ career_path[Len(career_path) - 1] = "Unemployed"
    /\ current_state \in {"Entry Level", "Junior", "Mid-Level"}

\* C17: in every simulated year: in Retired no profile field changes; otherwise
\* update_burnout runs first and the retirement trial is evaluated on the updated
\* burnout score; when the trial succeeds nothing else of the profile changes
\* (momentum, the two counters and unemployment_history stay); when it fails
\* update_momentum runs once, on the updated profile, with (old state, new state)
\* of the draw, and nothing but the record of an Unemployed year follows it.
C17_YearOrder ==
    [][/\ YearAbsorbed => profile' = profile
       /\ (YearRetire \/ YearTransition) =>
             /\ retirement_prob' =
                   get_retirement_probability(update_burnout(profile, current_state),
                                              current_state, current_age')
             /\ profile'.burnout_score = update_burnout(profile, current_state).burnout_score
       /\ YearRetire =>
             /\ profile'.momentum_score = profile.momentum_score
             /\ profile'.total_promotions = profile.total_promotions
             /\ profile'.total_demotions = profile.total_demotions
             /\ profile'.unemployment_history = profile.unemployment_history
       /\ YearTransition =>
             LET p2 == update_momentum(update_burnout(profile, current_state),
                                       current_state, current_state')
             IN  /\ profile'.momentum_score = p2.momentum_score
                 /\ profile'.total_promotions = p2.total_promotions
                 /\ profile'.total_demotions = p2.total_demotions
                 /\ profile'.total_promotions + profile'.total_demotions
                       <= profile.total_promotions + profile.total_demotions + 1
      ]_vars

\* C17 witness: a career that retired from Senior by the trial in its third year,
\* after promotions only: the trial saw the burnout score of 0.5 which that year's
\* update had just produced, and the counters are those of the first two years.
C17_Witness ==
    /\ year = 3
    /\ career_path[3] = "Senior"
    /\ current_state = "Retired"
    /\ profile.burnout_score = 1
    /\ profile.total_promotions = 2
    /\ profile.total_demotions = 0
    /\ retirement_prob #
          get_retirement_probability([profile EXCEPT !.burnout_score = 0], "Senior",
                                     current_age)

---------------------------------------------------------------------------
\* More claims about the two pure functions (SpecProbe).

\* The multiplier, in hundredths, the specialization boost gives the entry k of
\* the row of state s.
SpecializationFactor(e, s, k) ==
    IF e /\ s \in {"Entry Level", "Junior"} /\ k \in {"Junior", "Mid-Level", "Senior"}
    THEN 130
    ELSE IF e /\ s \in {"Senior", "Lead"} /\ k = s THEN 120
    ELSE IF ~e /\ s \in {"Manager", "Director", "VP"} /\ k \in {"Director", "VP", "C-Suite"}
    THEN 125
    ELSE 100

\* The multiplier, in hundredths, the risk boost gives the entry k.
RiskFactor(r, s, k) ==
    IF r = "high" /\ s = "Unemployed" /\ k = "Mid-Level" THEN 150
    ELSE IF r = "high" /\ s = "Unemployed" /\ k = "Unemployed" THEN 75
    ELSE IF r = "high" /\ s \in {"Senior", "Lead", "Manager"}
            /\ k \in {"Lead", "Manager", "Director"} /\ k # s THEN 135
    ELSE IF r = "high" /\ s \in {"Director", "VP"} /\ k \in {"VP", "C-Suite"} THEN 140
    ELSE IF r = "low" /\ s = "Unemployed" /\ k = "Entry Level" THEN 130
    ELSE IF r = "low" /\ s = "Unemployed" /\ k = "Unemployed" THEN 105
    ELSE 100

\* The multiplier, in hundredths, low risk gives the entry of the current state.
StabilityFactor(r, s, k) == IF r = "low" /\ k = s THEN 115 ELSE 100

\* C18: for every profile and state the row returned for the base row has the
\* keys of the base row, each entry being the base entry times the gated boosts
\* (specialization, then risk, then low-risk stability) and nothing else, divided
\* by the total of the boosted row.
C18_GatedBoosts ==
    (pc = "probed" /\ base_transitions = TRANSITIONS[current_state]) =>
        LET e == profile.early_specialization
            r == profile.risk_tolerance
            s == current_state
            boosted == [k \in DOMAIN base_transitions |->
                           base_transitions[k] * SpecializationFactor(e, s, k)
                              * RiskFactor(r, s, k) * StabilityFactor(r, s, k)]
        IN  /\ modified_transitions.row = boosted
            /\ modified_transitions.den = SumOver(boosted, DOMAIN boosted)

\* C18 witness: a generalist of high risk at Lead: Manager and Director are
\* boosted by 1.35, Lead itself is not.
C18_Witness ==
    /\ pc = "probed"
    /\ base_transitions = TRANSITIONS[current_state]
    /\ current_state = "Lead"
    /\ ~profile.early_specialization
    /\ profile.risk_tolerance = "high"
    /\ modified_transitions.row["Lead"] = 50 * 100 * 100 * 100
    /\ modified_transitions.row["Manager"] = 20 * 100 * 135 * 100
    /\ modified_transitions.row["Director"] = 5 * 100 * 135 * 100

---------------------------------------------------------------------------
\* Claims about the momentum update (SpecCareer).

\* The ranks: Entry Level = 1 up to C-Suite = 9, Unemployed = Retired = 0.
Ladder == <<"Entry Level", "Junior", "Mid-Level", "Senior", "Lead", "Manager",
            "Director", "VP", "C-Suite">>

RankOf(s) ==
    IF \E i \in 1..Len(Ladder) : Ladder[i] = s
    THEN CHOOSE i \in 1..Len(Ladder) : Ladder[i] = s
    ELSE 0

\* C19: the momentum update of a year moving from state old to state new, with
\* momentum m before it: a higher rank adds one promotion and gives (m + 2) x 0.9;
\* a lower rank adds one demotion and gives max(0, m - 3) x 0.9; an equal rank
\* changes no counter and gives m x 0.9.  (Ten times the new score is nine times
\* the score after the bonus or penalty.)
C19_MomentumUpdate ==
    [][YearTransition =>
          LET old == RankOf(current_state)
              new == RankOf(current_state')
              m   == profile.momentum_score
              up  == profile'.total_promotions - profile.total_promotions
              dn  == profile'.total_demotions - profile.total_demotions
          IN  /\ new > old =>
                    /\ up = 1
                    /\ dn = 0
                    /\ 10 * profile'.momentum_score = 9 * (m + 2 * MomScale)
              /\ new < old =>
                    /\ up = 0
                    /\ dn = 1
                    /\ 10 * profile'.momentum_score =
                          9 * (IF m > 3 * MomScale THEN m - 3 * MomScale ELSE 0)
              /\ new = old =>
                    /\ up = 0
                    /\ dn = 0
                    /\ 10 * profile'.momentum_score = 9 * m
      ]_vars

\* C19 witness: two promotions (momentum 1.8, then 3.42) followed by a demotion,
\* which leaves 0.42 x 0.9 = 0.378.
C19_Witness ==
    /\ profile.total_promotions = 2
    /\ profile.total_demotions = 1
    /\ year = 3
    /\ 1000 * profile.momentum_score = 378 * MomScale

---------------------------------------------------------------------------
\* Claims about the confidence interval (Spec).

\* C20: with compute_ci (and ci_iterations >= 1) the primary batch is followed by
\* exactly ci_iterations batches of `iterations` careers, each begun at Entry
\* Level with a fresh profile, and ci_lower and ci_upper are the 2.5th and 97.5th
\* percentiles of the rates of those batches alone, so (within the rounding to 4
\* places) they lie between the least and the greatest of them, and
\* ci_lower <= ci_upper; without compute_ci no further batch is run and the
\* result has neither field.
C20_ConfidenceInterval ==
    /\ (pc = "year" /\ year = 0) =>
          /\ profile = CareerProfile(config.specialization = "early", config.risk_level)
          /\ career_path = <<"Entry Level">>
    /\ batch_no = Len(bootstrap_probs) \/ batch_no = Len(bootstrap_probs) + 1
    /\ ~config.compute_ci => batch_no = 0
    /\ config.compute_ci => batch_no <= Max(0, config.ci_iterations)
    /\ \A i \in DOMAIN bootstrap_probs : bootstrap_probs[i].den = config.iterations
    /\ (result.status = "ok" /\ ~config.compute_ci) =>
          /\ result.metrics.director_probability.ci_lower = Absent
          /\ result.metrics.director_probability.ci_upper = Absent
    /\ (result.status = "ok" /\ config.compute_ci /\ config.ci_iterations >= 1) =>
          LET m == result.metrics.director_probability
          IN  /\ batch_no = config.ci_iterations
              /\ Len(bootstrap_probs) = config.ci_iterations
              /\ m.ci_lower = Some(Percentile4(bootstrap_probs, 25))
              /\ m.ci_upper = Some(Percentile4(bootstrap_probs, 975))
              /\ m.ci_lower.val <= m.ci_upper.val
              /\ \E i \in DOMAIN bootstrap_probs :
                    2 * 10000 * bootstrap_probs[i].num
                       <= (2 * m.ci_lower.val + 1) * bootstrap_probs[i].den
              /\ \E i \in DOMAIN bootstrap_probs :
                    (2 * m.ci_upper.val - 1) * bootstrap_probs[i].den
                       <= 2 * 10000 * bootstrap_probs[i].num

\* C20 witness: two extra batches with the rates 0 and 1 after a primary batch of
\* rate 1: the interval is [0.025, 0.975].
C20_Witness ==
    /\ result.status = "ok"
    /\ config.compute_ci
    /\ batch_no = 2
    /\ result.metrics.director_probability =
          [mean |-> Some(10000), ci_lower |-> Some(250), ci_upper |-> Some(9750)]

---------------------------------------------------------------------------
\* Claims about unemployment_history (SpecCareer).

\* C21: at every step of a career and at its end, unemployment_history has one
\* entry per Unemployed entry of the trajectory built so far, its year indices
\* are strictly increasing, and each index y is that of a year whose resulting
\* entry (position y + 1 of the trajectory, counted from 0) is Unemployed; so a
\* year that stays Unemployed is recorded again.
C21_UnemploymentHistory ==
    LET h == profile.unemployment_history
    IN  /\ Len(h) = Cardinality({i \in 1..Len(career_path) : career_path[i] = "Unemployed"})
        /\ \A i, j \in 1..Len(h) : i < j => h[i] < h[j]
        /\ \A i \in 1..Len(h) :
              /\ 0 <= h[i]
              /\ h[i] < year
              /\ career_path[h[i] + 2] = "Unemployed"
        /\ \A y \in 0..(year - 1) :
              career_path[y + 2] = "Unemployed" => \E i \in 1..Len(h) : h[i] = y

\* C21 witness: a returned career that entered Unemployed in its second year and
\* stayed there in its third: the years 1 and 2 are both recorded.
C21_Witness ==
    /\ pc = "returned"
    /\ Len(career_path) >= 4
    /\ career_path[2] # "Unemployed"
    /\ career_path[3] = "Unemployed"
    /\ career_path[4] = "Unemployed"
    /\ profile.unemployment_history = <<1, 2>>

---------------------------------------------------------------------------
\* Claims about the frame of apply_decision_modifiers (SpecProbe).

\* The successors of a row: its keys, and those of positive weight.
Successors(row) == {k \in DOMAIN row : row[k] > 0}

\* C22: a call of apply_decision_modifiers changes neither the row it is given
\* nor any field of the profile, and the row it returns has exactly the keys of
\* the row it was given, and exactly its successors of positive weight: no boost
\* adds a successor; the rows of TRANSITIONS are the same after the call.
C22_ModifiersFrame ==
    [][CallModifiers =>
          /\ base_transitions' = base_transitions
          /\ profile' = profile
          /\ DOMAIN modified_transitions'.row = DOMAIN base_transitions
          /\ Successors(modified_transitions'.row) = Successors(base_transitions)
          /\ base_transitions = TRANSITIONS[current_state] =>
                /\ base_transitions' = TRANSITIONS[current_state]
                /\ DOMAIN modified_transitions'.row = DOMAIN TRANSITIONS[current_state]
      ]_vars

\* C22 witness: a generalist at Manager, whose row has Director but neither VP
\* nor C-Suite: Director was boosted by 1.25 and the row still has the five keys
\* of the Manager row.
C22_Witness ==
    /\ pc = "probed"
    /\ current_state = "Manager"
    /\ ~profile.early_specialization
    /\ profile.risk_tolerance = "medium"
    /\ base_transitions = TRANSITIONS["Manager"]
    /\ modified_transitions.row["Director"] = 15 * 125 * 100 * 100
    /\ DOMAIN modified_transitions.row =
          {"Manager", "Director", "Lead", "Senior", "Unemployed"}

---------------------------------------------------------------------------
\* Claims about the peak position (Spec).

\* C23: the peak of every trajectory simulate_career returns is a state of the
\* trajectory whose rank is the greatest of its entries; the trajectory starts at
\* Entry Level, so the peak has rank >= 1 and is neither Unemployed nor Retired,
\* and neither label is a peak of a batch or a key of peak_role.
C23_PeakIsHighestVisited ==
    /\ pc = "returned" =>
          LET peak == get_peak_position(career_path)
          IN  /\ \E i \in 1..Len(career_path) : career_path[i] = peak
              /\ \A i \in 1..Len(career_path) : RankOf(career_path[i]) <= RankOf(peak)
              /\ RankOf(peak) >= 1
              /\ peak \notin {"Unemployed", "Retired"}
    /\ \A i \in DOMAIN careers_data : careers_data[i].peak \notin {"Unemployed", "Retired"}
    /\ DOMAIN primary_results.peak_counts \cap {"Unemployed", "Retired"} = {}
    /\ result.status = "ok" =>
          DOMAIN result.distributions.peak_role \cap {"Unemployed", "Retired"} = {}

\* C23 witness: a returned trajectory that rose to Junior, fell to Unemployed and
\* ended Retired: its peak is Junior.
C23_Witness ==
    /\ pc = "returned"
    /\ Len(career_path) = 4
    /\ career_path[2] = "Junior"
    /\ career_path[3] = "Unemployed"
    /\ career_path[4] = "Retired"
    /\ get_peak_position(career_path) = "Junior"

====
